---------------------------- MODULE Spec2Model ----------------------------
(***************************************************************************)
(* A model of the document section splitter of BlockSearch-Mac.py:         *)
(* StyleProcessor, FilenameManager, DocxSplitter and the part of           *)
(* DocSplitterDialog that starts and cancels a split.                      *)
(*                                                                         *)
(* Strings are sequences of one-character strings, so that the regular     *)
(* expression substitutions, slices and strips of the code are computed    *)
(* character by character.  Paragraphs are referred to by their identity   *)
(* (their index in the document as loaded); python indices are kept        *)
(* 0-based in every value the code stores (start_index, end_index, the     *)
(* removal list).                                                          *)
(***************************************************************************)
EXTENDS Integers, Sequences, FiniteSets, TLC

(***************************************************************************)
(* Bounds of the model.                                                    *)
(***************************************************************************)
\* longest title handed to sanitize_filename in SpecSanitize
MaxLen == 4
\* longest base name handed to ensure_unique in SpecUnique
MaxNameLen == 3
\* calls of ensure_unique against one used-name set in SpecUnique
MaxCalls == 4
\* styles of a document in SpecStyles
MaxStyles == 3
\* paragraphs of a document of any shape in SpecParse
MaxParas == 4
\* headings of a document made of target-level headings, each with or without
\* a body paragraph, in SpecParse
MaxBlocks == 3
\* content paragraphs of the section handed to _create_section_document
MaxContent == 2
\* attribute copies that fail in one call of _create_section_document
MaxFailures == 1
\* headings of a document of SpecSplitter and Spec
MaxSections == 3
\* paragraphs of each body of a document of the shape "A", body, empty
\* heading, body, "B", body in SpecParse
MaxBody == 2

(***************************************************************************)
(* Program constants.                                                      *)
(***************************************************************************)
\* sanitize_filename(title, max_length=240)
DefaultMaxLength == 240
\* _clean_document looks at the cancel flag when idx % 100 == 0
CleanCheckEvery == 100
\* parse_sections looks at the cancel flag when idx % 50 == 0
ParseCheckEvery == 50
\* python's None where the code holds an integer or None (a heading level, an
\* end_index); the integers of the model are never negative
None == -1

VARIABLES
    \* FilenameManager.sanitize_filename: its arguments, its result, and the
    \* result of sanitizing the result again
    title, max_length, safe, safe_again, sanitize_pc,
    \* FilenameManager.ensure_unique: the base name of the calls, the shared
    \* used-name set, and the names returned so far (in call order)
    filename, used_names, returned,
    \* StyleProcessor: the document's styles, the heading-level map being built
    \* and the number of styles _process_styles has gone through
    styles, heading_levels, style_pos,
    \* DocxSplitter: the paragraphs of the document as loaded (style name and
    \* text, by identity), doc.paragraphs as it is now (identities, in order),
    \* the target heading level, self.sections, self.cancel_requested, the
    \* messages handed to status_callback, and where process_document stands
    paragraphs, doc, target_level, sections, cancel_requested, status, pc,
    \* DocxSplitter.process_document, the output: the create_zip argument, the
    \* idx of the section loop, whether output_dir exists, the archive file at
    \* zip_path (whether it exists, whether the ZipFile is still open, the names
    \* of its entries), the names of the files saved in output_dir, what
    \* process_document returned, and the last value handed to
    \* progress_callback (in the dialog: the value of the progress bar)
    create_zip, sec_idx, output_dir_exists, zip_exists, zip_open, zip_entries,
    out_files, result, progress,
    \* DocSplitterDialog: self.cancel_requested, the state of self.process_thread,
    \* whether the dialog still exists, the state of the Process button, whether
    \* after(500, self.on_close) is pending, the callbacks the worker has
    \* queued with after(0, ...), and the titles of the message boxes shown
    dlg_cancel_requested, process_thread, dialog, process_button, close_timer,
    ui_events, messagebox,
    \* the template: self.template_path ("" when none is chosen), the state of
    \* the file at that path, and the TemporaryDirectory of the default template
    template_path, template_file, temp_dir,
    \* the threads in whose context the dialog's status text and progress bar
    \* have been written
    ui_writers,
    \* DocxSplitter._create_section_document: the section's title, level and
    \* content (paragraphs as sequences of runs), the paragraphs of the template,
    \* the attributes whose copy fails, and the outcome of the call
    rep_title, rep_level, rep_content, rep_template, rep_failing, rep_result

sanitizeVars == <<title, max_length, safe, safe_again, sanitize_pc>>
uniqueVars == <<filename, used_names, returned>>
styleVars == <<styles, heading_levels, style_pos>>
splitterVars == <<paragraphs, doc, target_level, sections, cancel_requested, status, pc>>
packVars == <<create_zip, sec_idx, output_dir_exists, zip_exists, zip_open, zip_entries,
              out_files, result, progress>>
templateVars == <<template_path, template_file, temp_dir>>
dialogState == <<dlg_cancel_requested, process_thread, dialog, process_button, close_timer,
                 ui_events, messagebox, templateVars>>
dialogVars == <<dialogState, ui_writers>>
replicaVars == <<rep_title, rep_level, rep_content, rep_template, rep_failing, rep_result>>
vars == <<sanitizeVars, uniqueVars, styleVars, splitterVars, packVars, dialogVars,
          replicaVars>>

(***************************************************************************)
(* Characters and strings.                                                 *)
(***************************************************************************)
\* re: [<>:"/\\|?*]
InvalidChars == {"<", ">", ":", "\"", "/", "\\", "|", "?", "*"}
\* re: \s, and what str.strip() with no argument strips
Whitespace == {" ", "\t", "\n", "\r"}
Digits == <<"0", "1", "2", "3", "4", "5", "6", "7", "8", "9">>

Min(a, b) == IF a <= b THEN a ELSE b

\* every sequence over S of length at most n
RECURSIVE SeqsUpTo(_, _)
SeqsUpTo(S, n) ==
    IF n = 0 THEN {<<>>}
    ELSE LET shorter == SeqsUpTo(S, n - 1)
         IN shorter \cup {Append(s, c) : s \in {t \in shorter : Len(t) = n - 1}, c \in S}

\* str(counter) for counter >= 0
RECURSIVE IntToStr(_)
IntToStr(n) ==
    IF n < 10 THEN <<Digits[n + 1]>>
    ELSE Append(IntToStr(n \div 10), Digits[(n % 10) + 1])

\* text.strip() is empty: the text is empty or whitespace-only
IsBlank(text) == \A i \in 1..Len(text) : text[i] \in Whitespace

(***************************************************************************)
(* FilenameManager.sanitize_filename                                       *)
(***************************************************************************)
\* re.sub(r'[<>:"/\\|?*]', '', title)
RemoveInvalid(s) == SelectSeq(s, LAMBDA c : c \notin InvalidChars)

\* re.sub(r'\s+', '_', safe): each maximal run of whitespace becomes one "_"
RECURSIVE WhitespaceToUnderscore(_)
WhitespaceToUnderscore(s) ==
    IF s = <<>> THEN <<>>
    ELSE IF Head(s) \in Whitespace
         THEN IF Len(s) > 1 /\ s[2] \in Whitespace
              THEN WhitespaceToUnderscore(Tail(s))
              ELSE <<"_">> \o WhitespaceToUnderscore(Tail(s))
         ELSE <<Head(s)>> \o WhitespaceToUnderscore(Tail(s))

\* re.sub(r'\.+', '.', safe): each maximal run of dots becomes one dot
RECURSIVE CollapseDots(_)
CollapseDots(s) ==
    IF s = <<>> THEN <<>>
    ELSE IF Head(s) = "." /\ Len(s) > 1 /\ s[2] = "."
         THEN CollapseDots(Tail(s))
         ELSE <<Head(s)>> \o CollapseDots(Tail(s))

\* safe[:max_length] for max_length >= 0
Truncate(s, n) == SubSeq(s, 1, Min(n, Len(s)))

\* s.lstrip(chars)
RECURSIVE LStrip(_, _)
LStrip(s, chars) ==
    IF s # <<>> /\ Head(s) \in chars THEN LStrip(Tail(s), chars) ELSE s

\* s.rstrip(chars)
RECURSIVE RStrip(_, _)
RStrip(s, chars) ==
    IF s # <<>> /\ s[Len(s)] \in chars
    THEN RStrip(SubSeq(s, 1, Len(s) - 1), chars)
    ELSE s

\* s.strip(chars)
Strip(s, chars) == RStrip(LStrip(s, chars), chars)

\* a variant that trims the dots and underscores before it truncates
sanitize_strip_before_truncate(t, maxlen) ==
    Truncate(Strip(CollapseDots(WhitespaceToUnderscore(RemoveInvalid(t))), {".", "_"}),
             maxlen)

sanitize_filename(t, maxlen) ==
    Strip(Truncate(CollapseDots(WhitespaceToUnderscore(RemoveInvalid(t))), maxlen),
          {".", "_"})

(***************************************************************************)
(* FilenameManager.ensure_unique                                           *)
(***************************************************************************)
\* the position of the last "." of s, 0 when s holds none
RECURSIVE LastDot(_)
LastDot(s) ==
    IF s = <<>> THEN 0
    ELSE IF s[Len(s)] = "." THEN Len(s)
    ELSE LastDot(SubSeq(s, 1, Len(s) - 1))

\* the candidate the loop body builds from base and counter:
\* base.rsplit('.', 1), then "<stem>_<counter>.<ext>" or "<base>_<counter>"
Candidate(base, counter) ==
    LET d == LastDot(base)
    IN IF d > 0
       THEN SubSeq(base, 1, d - 1) \o <<"_">> \o IntToStr(counter) \o <<".">>
            \o SubSeq(base, d + 1, Len(base))
       ELSE base \o <<"_">> \o IntToStr(counter)

\* a variant with an `if` for the `while`: the first candidate is not checked
UniqueLoopOnce(base, name, counter, used) ==
    IF name \in used THEN Candidate(base, counter) ELSE name

\* the while loop: the name it leaves with, entered with filename and counter
RECURSIVE UniqueLoop(_, _, _, _)
UniqueLoop(base, name, counter, used) ==
    IF name \in used
    THEN UniqueLoop(base, Candidate(base, counter), counter + 1, used)
    ELSE name

\* a variant that returns the name without recording it in the set
ensure_unique_unrecorded(name, used) ==
    [name |-> UniqueLoop(name, name, 1, used), used_names |-> used]

\* ensure_unique(filename, used_names): the returned name and the set afterwards
ensure_unique(name, used) ==
    LET unique == UniqueLoop(name, name, 1, used)
    IN [name |-> unique, used_names |-> used \cup {unique}]

(***************************************************************************)
(* StyleProcessor.  A style name is the sequence of its whitespace-separated *)
(* tokens (name.split()), each token a string; a style is its name, its    *)
(* type and its base style, given as the base's position in the document's *)
(* styles (0: no base style).                                              *)
(***************************************************************************)
HeadingTok == <<"H", "e", "a", "d", "i", "n", "g">>

\* name.startswith('Heading '): the first token is Heading and another follows
StartsWithHeading(name) == Len(name) >= 2 /\ name[1] = HeadingTok

DigitValue(c) == CHOOSE d \in 0..9 : Digits[d + 1] = c
IsDigit(c) == \E d \in 0..9 : Digits[d + 1] = c

\* int(token) succeeds: a non-empty run of decimal digits (signs, underscores
\* and the other forms python's int() takes are left out)
IsIntLiteral(tok) == tok # <<>> /\ \A i \in 1..Len(tok) : IsDigit(tok[i])

\* int(token)
RECURSIVE ParseInt(_)
ParseInt(tok) ==
    IF Len(tok) = 1 THEN DigitValue(tok[1])
    ELSE 10 * ParseInt(SubSeq(tok, 1, Len(tok) - 1)) + DigitValue(tok[Len(tok)])

\* name.split()[-1]
LastToken(name) == name[Len(name)]

\* heading_levels[key] = value
DictSet(dict, key, value) == (key :> value) @@ dict

\* one iteration of the loop of _process_styles: the map after `style`
process_style(style, all, levels) ==
    IF style.type # "PARAGRAPH" THEN levels
    ELSE IF StartsWithHeading(style.name)
         THEN IF IsIntLiteral(LastToken(style.name))
              THEN DictSet(levels, style.name, ParseInt(LastToken(style.name)))
              ELSE levels
         ELSE IF style.base_style # 0
              THEN LET base_name == all[style.base_style].name
                   IN IF StartsWithHeading(base_name)
                         /\ IsIntLiteral(LastToken(base_name))
                      THEN DictSet(levels, style.name, ParseInt(LastToken(base_name)))
                      ELSE levels
              ELSE levels

\* _process_styles: the loop over doc.styles, from position i on
RECURSIVE ProcessStylesFrom(_, _, _)
ProcessStylesFrom(all, i, levels) ==
    IF i > Len(all) THEN levels
    ELSE ProcessStylesFrom(all, i + 1, process_style(all[i], all, levels))

\* the empty dict
EmptyDict == [k \in {} |-> None]

\* StyleProcessor(doc).heading_levels
process_styles(all) == ProcessStylesFrom(all, 1, EmptyDict)

(***************************************************************************)
(* DocxSplitter._clean_document and DocxSplitter.parse_sections.           *)
(* `paras` is the document as loaded, `d` is doc.paragraphs (identities),  *)
(* `levels` is style_processor.heading_levels, `T` is target_level and     *)
(* `cancel` is self.cancel_requested as the loop reads it.  idx is the     *)
(* 0-based index of enumerate(doc.paragraphs).                             *)
(***************************************************************************)
\* a paragraph with no style
NoStyle == <<>>

\* StyleProcessor.get_heading_level
get_heading_level(para, levels) ==
    IF para.style = NoStyle THEN None
    ELSE IF para.style \in DOMAIN levels THEN levels[para.style]
    ELSE None

\* doc.paragraphs[idx]
ParaAt(paras, d, idx) == paras[d[idx + 1]]

\* sorted(list, reverse=True), by insertion
RECURSIVE InsertDesc(_, _)
InsertDesc(sorted, x) ==
    IF sorted = <<>> THEN <<x>>
    ELSE IF x >= Head(sorted) THEN <<x>> \o sorted
    ELSE <<Head(sorted)>> \o InsertDesc(Tail(sorted), x)

RECURSIVE SortedReverse(_)
SortedReverse(list) ==
    IF list = <<>> THEN <<>>
    ELSE InsertDesc(SortedReverse(Tail(list)), Head(list))

\* a variant without the empty-text rule
IsRemovedHeadingByLevel(para, levels, T) ==
    LET level == get_heading_level(para, levels)
    IN level # None /\ level < T

\* the paragraph is a heading the scan removes: above the target level in the
\* hierarchy, or with empty text
IsRemovedHeading(para, levels, T) ==
    LET level == get_heading_level(para, levels)
    IN /\ level # None
       /\ (level < T /\ level # T) \/ IsBlank(para.text)

\* the scan of _clean_document from idx on: paragraphs_to_remove, or the
\* cancellation seen at a checkpoint
RECURSIVE CleanScan(_, _, _, _, _, _, _)
CleanScan(paras, d, levels, T, cancel, idx, to_remove) ==
    IF idx >= Len(d) THEN [canceled |-> FALSE, to_remove |-> to_remove]
    ELSE IF idx % CleanCheckEvery = 0 /\ cancel
         THEN [canceled |-> TRUE, to_remove |-> to_remove]
    ELSE IF IsRemovedHeading(ParaAt(paras, d, idx), levels, T)
         THEN CleanScan(paras, d, levels, T, cancel, idx + 1,
                        IF idx + 1 < Len(d) /\ IsBlank(ParaAt(paras, d, idx + 1).text)
                        THEN to_remove \o <<idx, idx + 1>>
                        ELSE Append(to_remove, idx))
    ELSE CleanScan(paras, d, levels, T, cancel, idx + 1, to_remove)

\* p.getparent().remove(p) for p = doc.paragraphs[idx]
RemoveAt(d, idx) == SubSeq(d, 1, idx) \o SubSeq(d, idx + 2, Len(d))

\* the removal loop: for idx in order: if idx < len(doc.paragraphs): remove
RECURSIVE RemoveEach(_, _)
RemoveEach(d, order) ==
    IF order = <<>> THEN d
    ELSE RemoveEach(IF Head(order) < Len(d) THEN RemoveAt(d, Head(order)) ELSE d,
                    Tail(order))

\* _clean_document: the document it returns and whether it was canceled
clean_document(paras, d, levels, T, cancel) ==
    LET scan == CleanScan(paras, d, levels, T, cancel, 0, <<>>)
    IN IF scan.canceled THEN [canceled |-> TRUE, doc |-> d]
       ELSE [canceled |-> FALSE, doc |-> RemoveEach(d, SortedReverse(scan.to_remove))]

\* not any(p.text.strip() for p in content)
NoContent(paras, content) == \A i \in 1..Len(content) : IsBlank(paras[content[i]].text)

\* The state of the loop of parse_sections: self.sections, current_section (a
\* sequence of length 0 for None, 1 for a Section; a Section is the same object
\* as the element of self.sections with its start_index, if there is one),
\* used_titles, whether the loop returned at a cancellation checkpoint, and
\* whether list.remove raised ValueError.
ParseStart ==
    [sections |-> <<>>, current |-> <<>>, used_titles |-> {},
     canceled |-> FALSE, raised |-> FALSE]

InSections(secs, sec) == \E i \in 1..Len(secs) : secs[i].start_index = sec.start_index

\* the list with the object `sec` brought up to date
Updated(secs, sec) ==
    [i \in 1..Len(secs) |-> IF secs[i].start_index = sec.start_index THEN sec ELSE secs[i]]

\* self.sections.remove(sec)
Removed(secs, sec) == SelectSeq(secs, LAMBDA x : x.start_index # sec.start_index)

\* a variant that keeps a section with no content
CloseCurrentKeep(paras, st, end) ==
    LET sec == [st.current[1] EXCEPT !.end_index = end]
    IN [st EXCEPT !.current = <<sec>>, !.sections = Updated(st.sections, sec)]

\* current_section.end_index = end; remove the section if it has no content
CloseCurrent(paras, st, end) ==
    LET sec == [st.current[1] EXCEPT !.end_index = end]
        secs == Updated(st.sections, sec)
    IN IF ~NoContent(paras, sec.content)
       THEN [st EXCEPT !.current = <<sec>>, !.sections = secs]
       ELSE IF InSections(secs, sec)
            THEN [st EXCEPT !.current = <<sec>>, !.sections = Removed(secs, sec)]
            ELSE [st EXCEPT !.current = <<sec>>, !.raised = TRUE]

\* a variant that counts the paragraphs of the document from one
OpenSectionOneBased(para, level, idx, st) ==
    LET safe_title == sanitize_filename(para.text, DefaultMaxLength)
        unique == ensure_unique(safe_title, st.used_titles)
        sec == [title |-> para.text, safe_title |-> unique.name, level |-> level,
                content |-> <<>>, start_index |-> idx + 1, end_index |-> None]
    IN [st EXCEPT !.current = <<sec>>,
                  !.sections = Append(st.sections, sec),
                  !.used_titles = unique.used_names]

\* the new Section of a heading with text, appended to self.sections
OpenSection(para, level, idx, st) ==
    LET safe_title == sanitize_filename(para.text, DefaultMaxLength)
        unique == ensure_unique(safe_title, st.used_titles)
        sec == [title |-> para.text, safe_title |-> unique.name, level |-> level,
                content |-> <<>>, start_index |-> idx, end_index |-> None]
    IN [st EXCEPT !.current = <<sec>>,
                  !.sections = Append(st.sections, sec),
                  !.used_titles = unique.used_names]

\* the body of the loop of parse_sections for the paragraph at idx
ParseParagraph(paras, d, levels, T, idx, st) ==
    LET para == ParaAt(paras, d, idx)
        level == get_heading_level(para, levels)
    IN IF level = T
       THEN LET closed == IF st.current # <<>> THEN CloseCurrent(paras, st, idx - 1)
                          ELSE st
            IN IF closed.raised THEN closed
               ELSE IF ~IsBlank(para.text) THEN OpenSection(para, level, idx, closed)
               ELSE closed
       ELSE IF st.current # <<>>
            THEN LET sec == [st.current[1] EXCEPT !.content = Append(@, d[idx + 1])]
                 IN [st EXCEPT !.current = <<sec>>, !.sections = Updated(@, sec)]
            ELSE st

\* the loop of parse_sections from idx on, then "Handle final section"
RECURSIVE ParseLoop(_, _, _, _, _, _, _)
ParseLoop(paras, d, levels, T, cancel, idx, st) ==
    IF st.raised THEN st
    ELSE IF idx >= Len(d)
         THEN IF st.current # <<>> THEN CloseCurrent(paras, st, Len(d) - 1) ELSE st
    ELSE IF idx % ParseCheckEvery = 0 /\ cancel
         THEN [st EXCEPT !.sections = <<>>, !.canceled = TRUE]
    ELSE ParseLoop(paras, d, levels, T, cancel, idx + 1,
                   ParseParagraph(paras, d, levels, T, idx, st))

(***************************************************************************)
(* The steps of DocxSplitter.process_document, run by one thread, and      *)
(* DocxSplitter.cancel, called from another.  The flag is read at the      *)
(* checkpoints only: a document of the model is shorter than the checkpoint *)
(* intervals, so each scan reads it once, at idx 0, and a scan is one step. *)
(***************************************************************************)
\* status_callback / progress_callback run in the thread that calls them; when
\* they are the dialog's update_status / update_progress, that thread writes
\* the status text and the progress bar
CallbackFrom(thread) ==
    ui_writers' = IF dialog # "none" /\ (status' # status \/ progress' # progress)
                  THEN ui_writers \cup {thread}
                  ELSE ui_writers

\* DocxSplitter.cancel
Cancel ==
    /\ ~cancel_requested
    /\ cancel_requested' = TRUE
    /\ status' = Append(status, "Cancellation requested")
    /\ UNCHANGED <<paragraphs, doc, target_level, sections, pc, heading_levels>>
    /\ UNCHANGED <<styles, style_pos, sanitizeVars, uniqueVars, packVars, dialogVars>>
    /\ UNCHANGED replicaVars

\* a cleaning step whose checkpoint consumes the flag it has seen
CleanDocumentResetsFlag ==
    /\ pc = "clean"
    /\ LET r == clean_document(paragraphs, doc, heading_levels, target_level,
                               cancel_requested)
       IN /\ doc' = r.doc
          /\ status' = status \o <<"Parsing document sections">>
                       \o IF r.canceled
                          THEN <<"Operation canceled during document cleaning">>
                          ELSE <<>>
          /\ cancel_requested' = (cancel_requested /\ ~r.canceled)
    /\ pc' = "parse"
    /\ UNCHANGED <<paragraphs, target_level, sections, heading_levels>>
    /\ UNCHANGED <<styles, style_pos, sanitizeVars, uniqueVars, packVars, dialogState>>
    /\ CallbackFrom("worker")
    /\ UNCHANGED replicaVars

\* parse_sections, up to the return of _clean_document
CleanDocument ==
    /\ pc = "clean"
    /\ LET r == clean_document(paragraphs, doc, heading_levels, target_level,
                               cancel_requested)
       IN /\ doc' = r.doc
          /\ status' = status \o <<"Parsing document sections">>
                       \o IF r.canceled
                          THEN <<"Operation canceled during document cleaning">>
                          ELSE <<>>
    /\ pc' = "parse"
    /\ UNCHANGED <<paragraphs, target_level, sections, cancel_requested, heading_levels>>
    /\ UNCHANGED <<styles, style_pos, sanitizeVars, uniqueVars, packVars, dialogState>>
    /\ CallbackFrom("worker")
    /\ UNCHANGED replicaVars

\* parse_sections, the loop over the paragraphs and the final section
ParseSections ==
    /\ pc = "parse"
    /\ LET st == ParseLoop(paragraphs, doc, heading_levels, target_level,
                           cancel_requested, 0,
                           [ParseStart EXCEPT !.sections = sections])
       IN /\ sections' = st.sections
          /\ pc' = IF st.raised THEN "raised"
                   ELSE IF st.canceled THEN "parsed"
                   ELSE "parse_check"
          /\ status' = IF st.canceled
                       THEN Append(status, "Operation canceled during parsing")
                       ELSE status
    /\ UNCHANGED <<paragraphs, doc, target_level, cancel_requested, heading_levels>>
    /\ UNCHANGED <<styles, style_pos, sanitizeVars, uniqueVars, packVars, dialogState>>
    /\ CallbackFrom("worker")
    /\ UNCHANGED replicaVars

\* a final flag check that reports but keeps the sections
ParseCheckKeep ==
    /\ pc = "parse_check"
    /\ status' = Append(status, IF cancel_requested THEN "Operation canceled"
                                ELSE "Found non-empty sections")
    /\ pc' = "parsed"
    /\ UNCHANGED <<paragraphs, doc, target_level, sections, cancel_requested,
                   heading_levels>>
    /\ UNCHANGED <<styles, style_pos, sanitizeVars, uniqueVars, packVars, dialogState>>
    /\ CallbackFrom("worker")
    /\ UNCHANGED replicaVars

\* parse_sections, the flag check after the loop
ParseCheck ==
    /\ pc = "parse_check"
    /\ IF cancel_requested
       THEN /\ sections' = <<>>
            /\ status' = Append(status, "Operation canceled")
       ELSE /\ sections' = sections
            /\ status' = Append(status, "Found non-empty sections")
    /\ pc' = "parsed"
    /\ UNCHANGED <<paragraphs, doc, target_level, cancel_requested, heading_levels>>
    /\ UNCHANGED <<styles, style_pos, sanitizeVars, uniqueVars, packVars, dialogState>>
    /\ CallbackFrom("worker")
    /\ UNCHANGED replicaVars

\* Document(input_path): the paragraphs of the file, each referred to by its
\* position in the file
Loaded(paras) == [i \in 1..Len(paras) |-> i]

\* f"{section.safe_title}.docx"
DocxName(safe_title) == safe_title \o <<".", "d", "o", "c", "x">>

\* the status of one iteration of a packaging loop: the section was processed,
\* or an exception was caught; the message carries str(e), which tells an I/O
\* error of doc.save or archive.write from any other exception
ErrorReport == { "Error processing section", "Error processing section: I/O error" }

SectionReport == {"Processed section"} \cup ErrorReport

\* int((idx / total) * 100): the quotient and the product are doubles and int()
\* truncates; for every total below 50 the truncated double is the integer
\* part of the exact value 100 * idx / total
percent_complete(idx, total) == (idx * 100) \div total

\* process_document after parse_sections: the canceled-or-empty check, then
\* output_dir.mkdir
ProcessCheck ==
    /\ pc = "parsed"
    /\ IF cancel_requested \/ sections = <<>>
       THEN /\ result' = "None"
            /\ pc' = "done"
            /\ UNCHANGED <<output_dir_exists, sec_idx>>
       ELSE /\ output_dir_exists' = TRUE
            /\ sec_idx' = 1
            /\ pc' = IF create_zip THEN "zip_open" ELSE "files"
            /\ UNCHANGED result
    /\ UNCHANGED <<paragraphs, doc, target_level, sections, cancel_requested, status>>
    /\ UNCHANGED <<create_zip, zip_exists, zip_open, zip_entries, out_files, progress>>
    /\ UNCHANGED <<sanitizeVars, uniqueVars, styleVars, dialogVars>>
    /\ UNCHANGED replicaVars

\* _create_zip_archive: zipfile.ZipFile(zip_path, 'w', ...) creates (or
\* truncates) the file at zip_path
ZipOpen ==
    /\ pc = "zip_open"
    /\ zip_exists' = TRUE
    /\ zip_open' = TRUE
    /\ zip_entries' = <<>>
    /\ pc' = "zip"
    /\ UNCHANGED <<create_zip, sec_idx, output_dir_exists, out_files, result, progress>>
    /\ UNCHANGED <<paragraphs, doc, target_level, sections, cancel_requested, status>>
    /\ UNCHANGED <<sanitizeVars, uniqueVars, styleVars, dialogVars>>
    /\ UNCHANGED replicaVars

\* _create_zip_archive: one iteration of the loop over the sections: the flag
\* check (return None leaves the `with` block, which closes the archive), then
\* the section's document is built, saved and written into the archive and the
\* progress reported; an exception at any of these points (before or after the
\* entry is written) is caught and reported
ZipSection ==
    /\ pc = "zip"
    /\ sec_idx <= Len(sections)
    /\ IF cancel_requested
       THEN /\ status' = Append(status, "Operation canceled by user")
            /\ zip_open' = FALSE
            /\ result' = "None"
            /\ pc' = "done"
            /\ UNCHANGED <<zip_entries, sec_idx, progress>>
       ELSE /\ \E written \in BOOLEAN, report \in SectionReport :
                  /\ report = "Processed section" => written
                  /\ template_file # "readable" =>
                         ~written /\ report = "Error processing section"
                  /\ progress' = IF report = "Processed section"
                                 THEN percent_complete(sec_idx, Len(sections))
                                 ELSE progress
                  /\ zip_entries' =
                         IF written
                         THEN Append(zip_entries, DocxName(sections[sec_idx].safe_title))
                         ELSE zip_entries
                  /\ status' = Append(status, report)
            /\ sec_idx' = sec_idx + 1
            /\ UNCHANGED <<zip_open, result, pc>>
    /\ UNCHANGED <<create_zip, output_dir_exists, zip_exists, out_files>>
    /\ UNCHANGED <<paragraphs, doc, target_level, sections, cancel_requested>>
    /\ UNCHANGED <<sanitizeVars, uniqueVars, styleVars, dialogState>>
    /\ CallbackFrom("worker")
    /\ UNCHANGED replicaVars

\* _create_zip_archive: after the loop, the last flag check inside the `with`
\* block, then the archive is closed and zip_path returned
ZipEnd ==
    /\ pc = "zip"
    /\ sec_idx > Len(sections)
    /\ IF cancel_requested
       THEN /\ status' = Append(status, "Operation canceled while creating archive")
            /\ result' = "None"
       ELSE /\ status' = Append(status, "Created archive")
            /\ result' = "zip_path"
    /\ zip_open' = FALSE
    /\ pc' = "done"
    /\ UNCHANGED <<create_zip, sec_idx, output_dir_exists, zip_exists, zip_entries, out_files,
                   progress>>
    /\ UNCHANGED <<paragraphs, doc, target_level, sections, cancel_requested>>
    /\ UNCHANGED <<sanitizeVars, uniqueVars, styleVars, dialogState>>
    /\ CallbackFrom("worker")
    /\ UNCHANGED replicaVars

\* an iteration that checks the flag only after it has written the file
FileSectionChecksLate ==
    /\ pc = "files"
    /\ sec_idx <= Len(sections)
    /\ out_files' = out_files \cup {DocxName(sections[sec_idx].safe_title)}
    /\ IF cancel_requested
       THEN /\ status' = Append(status, "Operation canceled by user")
            /\ result' = "None"
            /\ pc' = "done"
            /\ UNCHANGED sec_idx
       ELSE /\ status' = Append(status, "Processed section")
            /\ sec_idx' = sec_idx + 1
            /\ UNCHANGED <<result, pc>>
    /\ UNCHANGED <<create_zip, output_dir_exists, zip_exists, zip_open, zip_entries,
                   progress>>
    /\ UNCHANGED <<paragraphs, doc, target_level, sections, cancel_requested>>
    /\ UNCHANGED <<sanitizeVars, uniqueVars, styleVars, dialogState>>
    /\ CallbackFrom("worker")
    /\ UNCHANGED replicaVars

\* _save_individual_files: one iteration of the loop over the sections
FileSection ==
    /\ pc = "files"
    /\ sec_idx <= Len(sections)
    /\ IF cancel_requested
       THEN /\ status' = Append(status, "Operation canceled by user")
            /\ result' = "None"
            /\ pc' = "done"
            /\ UNCHANGED <<out_files, sec_idx, progress>>
       ELSE /\ \E written \in BOOLEAN, report \in SectionReport :
                  /\ report = "Processed section" => written
                  /\ template_file # "readable" =>
                         ~written /\ report = "Error processing section"
                  /\ progress' = IF report = "Processed section"
                                 THEN percent_complete(sec_idx, Len(sections))
                                 ELSE progress
                  /\ out_files' =
                         IF written
                         THEN out_files \cup {DocxName(sections[sec_idx].safe_title)}
                         ELSE out_files
                  /\ status' = Append(status, report)
            /\ sec_idx' = sec_idx + 1
            /\ UNCHANGED <<result, pc>>
    /\ UNCHANGED <<create_zip, output_dir_exists, zip_exists, zip_open, zip_entries>>
    /\ UNCHANGED <<paragraphs, doc, target_level, sections, cancel_requested>>
    /\ UNCHANGED <<sanitizeVars, uniqueVars, styleVars, dialogState>>
    /\ CallbackFrom("worker")
    /\ UNCHANGED replicaVars

\* _save_individual_files: after the loop
FilesEnd ==
    /\ pc = "files"
    /\ sec_idx > Len(sections)
    /\ IF cancel_requested
       THEN /\ status' = Append(status, "Operation canceled while saving files")
            /\ result' = "None"
       ELSE /\ status' = Append(status, "Saved documents")
            /\ result' = "output_dir"
    /\ pc' = "done"
    /\ UNCHANGED <<create_zip, sec_idx, output_dir_exists, zip_exists, zip_open,
                   zip_entries, out_files, progress>>
    /\ UNCHANGED <<paragraphs, doc, target_level, sections, cancel_requested>>
    /\ UNCHANGED <<sanitizeVars, uniqueVars, styleVars, dialogState>>
    /\ CallbackFrom("worker")
    /\ UNCHANGED replicaVars

\* _save_individual_files: the number in "Saved {total_sections} documents to:"
total_sections == Len(sections)

\* _process_document_thread: the number handed to _show_completion_message for
\* "Processing complete. Created {section_count} documents."
section_count == Len(sections)

(***************************************************************************)
(* DocSplitterDialog: the Process button, the worker thread around         *)
(* process_document, and on_close (the Cancel button, the window's close   *)
(* button and the 500 ms timer on_close sets itself).  The user interface  *)
(* thread runs one handler at a time: while process_document is inside its *)
(* `with TemporaryDirectory()` block no other handler runs.                *)
(***************************************************************************)
\* the states of the file at a template path
TemplateFiles == {"missing", "unreadable", "readable"}

\* DocSplitterDialog.process_document: validate_inputs (which creates the
\* output directory and then looks for a chosen template), the default
\* template saved into a TemporaryDirectory when none is chosen, and
\* _start_processing_thread.  One press of Process per dialog.
StartProcessing ==
    /\ dialog = "open"
    /\ process_button = "normal"
    /\ process_thread = "none"
    /\ messagebox = <<>>
    /\ output_dir_exists' = TRUE
    /\ IF template_path # "" /\ template_file = "missing"
       THEN /\ messagebox' = Append(messagebox, "Template Error")
            /\ UNCHANGED <<process_button, dlg_cancel_requested, process_thread, pc,
                           status, progress, templateVars, ui_writers>>
       ELSE /\ progress' = 0
            /\ ui_writers' = ui_writers \cup {"ui"}
            /\ dlg_cancel_requested' = FALSE
            /\ IF template_path = ""
               THEN /\ status' = Append(status, "Creating default template...")
                    /\ \E saved \in BOOLEAN :
                           IF saved
                           THEN /\ template_path' = "default"
                                /\ template_file' = "readable"
                                /\ temp_dir' = "open"
                                /\ process_button' = "disabled"
                                /\ process_thread' = "alive"
                                /\ pc' = "init"
                                /\ UNCHANGED messagebox
                           ELSE /\ messagebox' = Append(messagebox, "Template Error")
                                /\ UNCHANGED <<process_button, process_thread, pc,
                                               templateVars>>
               ELSE /\ process_button' = "disabled"
                    /\ process_thread' = "alive"
                    /\ pc' = "init"
                    /\ UNCHANGED <<status, messagebox, templateVars>>
    /\ UNCHANGED <<dialog, close_timer, ui_events>>
    /\ UNCHANGED <<paragraphs, doc, target_level, sections, cancel_requested>>
    /\ UNCHANGED <<create_zip, sec_idx, zip_exists, zip_open, zip_entries, out_files,
                   result>>
    /\ UNCHANGED <<sanitizeVars, uniqueVars, styleVars>>
    /\ UNCHANGED replicaVars

\* process_document: the end of `with TemporaryDirectory() as temp_dir`, right
\* after the thread was started: the directory and the default template in it
\* are deleted; self.template_path still names the file
DiscardTemplate ==
    /\ temp_dir = "open"
    /\ temp_dir' = "removed"
    /\ template_file' = "missing"
    /\ UNCHANGED <<template_path, messagebox, ui_writers>>
    /\ UNCHANGED <<dlg_cancel_requested, process_thread, dialog, process_button,
                   close_timer, ui_events>>
    /\ UNCHANGED <<sanitizeVars, uniqueVars, styleVars, splitterVars, packVars>>
    /\ UNCHANGED replicaVars

\* _process_document_thread: DocxSplitter(...), which raises ValueError when
\* the template path is empty or names no file, and otherwise loads the
\* document and builds its StyleProcessor
Construct ==
    /\ pc = "init"
    /\ IF template_path = "" \/ template_file = "missing"
       THEN /\ pc' = "raised"
            /\ UNCHANGED <<doc, heading_levels, style_pos, sections, cancel_requested>>
       ELSE /\ doc' = Loaded(paragraphs)
            /\ heading_levels' = process_styles(styles)
            /\ style_pos' = Len(styles)
            /\ sections' = <<>>
            /\ cancel_requested' = FALSE
            /\ pc' = "clean"
    /\ UNCHANGED <<paragraphs, target_level, status, styles>>
    /\ UNCHANGED <<sanitizeVars, uniqueVars, packVars, dialogVars>>
    /\ UNCHANGED replicaVars

\* _process_document_thread after process_document: the callbacks it queues
\* with self.after(0, ...), and the end of the thread
ThreadExit ==
    /\ pc \in {"done", "raised"}
    /\ process_thread = "alive"
    /\ ui_events' = ui_events \o
           IF pc = "raised" THEN <<"_show_error">>
           ELSE IF result = "None" THEN <<"_cleanup_canceled_operation">>
           ELSE <<"update_progress", "_show_completion_message">>
    /\ process_thread' = "dead"
    /\ pc' = "exited"
    /\ UNCHANGED <<dlg_cancel_requested, dialog, process_button, close_timer, messagebox,
                   templateVars, ui_writers>>
    /\ UNCHANGED <<paragraphs, doc, target_level, sections, cancel_requested, status>>
    /\ UNCHANGED <<sanitizeVars, uniqueVars, styleVars, packVars>>
    /\ UNCHANGED replicaVars

\* the event loop runs the next queued callback: _cleanup_canceled_operation,
\* update_progress(100), _show_completion_message or _show_error
RunCallback ==
    /\ dialog = "open"
    /\ temp_dir # "open"
    /\ ui_events # <<>>
    /\ ui_events' = Tail(ui_events)
    /\ IF Head(ui_events) = "update_progress"
       THEN /\ progress' = 100
            /\ UNCHANGED <<status, process_button, messagebox>>
       ELSE /\ process_button' = "normal"
            /\ UNCHANGED progress
            /\ status' = Append(status,
                   IF Head(ui_events) = "_cleanup_canceled_operation"
                   THEN "Operation canceled"
                   ELSE IF Head(ui_events) = "_show_completion_message"
                   THEN "Processing complete"
                   ELSE "Error during processing")
            /\ messagebox' =
                   IF Head(ui_events) = "_show_completion_message"
                   THEN Append(messagebox, "Success")
                   ELSE IF Head(ui_events) = "_show_error"
                   THEN Append(messagebox, "Error")
                   ELSE messagebox
    /\ UNCHANGED <<dlg_cancel_requested, process_thread, dialog, close_timer, templateVars>>
    /\ UNCHANGED <<paragraphs, doc, target_level, sections, cancel_requested, pc>>
    /\ UNCHANGED <<create_zip, sec_idx, output_dir_exists, zip_exists, zip_open,
                   zip_entries, out_files, result>>
    /\ UNCHANGED <<sanitizeVars, uniqueVars, styleVars>>
    /\ ui_writers' = ui_writers \cup {"ui"}
    /\ UNCHANGED replicaVars

\* DocSplitterDialog.on_close; `confirm` is the answer to askyesno, `timer`
\* tells whether a timer set by an earlier call is still pending afterwards
on_close(confirm, timer) ==
    IF process_thread = "alive" /\ ~dlg_cancel_requested
    THEN IF confirm
         THEN /\ dlg_cancel_requested' = TRUE
              /\ status' = Append(status, "Canceling operation...")
              /\ close_timer' = TRUE
              /\ UNCHANGED dialog
         ELSE /\ close_timer' = timer
              /\ UNCHANGED <<dlg_cancel_requested, status, dialog>>
    ELSE /\ dialog' = "destroyed"
         /\ close_timer' = timer
         /\ UNCHANGED <<dlg_cancel_requested, status>>

\* the user presses Cancel or closes the window
CloseClicked ==
    /\ dialog = "open"
    /\ temp_dir # "open"
    /\ \E confirm \in BOOLEAN : on_close(confirm, close_timer)
    /\ UNCHANGED <<process_thread, process_button, ui_events, messagebox, templateVars>>
    /\ UNCHANGED <<paragraphs, doc, target_level, sections, cancel_requested, pc>>
    /\ UNCHANGED <<sanitizeVars, uniqueVars, styleVars, packVars>>
    /\ CallbackFrom("ui")
    /\ UNCHANGED replicaVars

\* the timer of after(500, self.on_close) fires
CloseTimer ==
    /\ dialog = "open"
    /\ temp_dir # "open"
    /\ close_timer
    /\ \E confirm \in BOOLEAN : on_close(confirm, FALSE)
    /\ UNCHANGED <<process_thread, process_button, ui_events, messagebox, templateVars>>
    /\ UNCHANGED <<paragraphs, doc, target_level, sections, cancel_requested, pc>>
    /\ UNCHANGED <<sanitizeVars, uniqueVars, styleVars, packVars>>
    /\ CallbackFrom("ui")
    /\ UNCHANGED replicaVars

(***************************************************************************)
(* SpecSanitize: sanitize_filename applied to every short title, then to   *)
(* its own result.                                                         *)
(***************************************************************************)
TitleChars == {"A", "?", " ", ".", "_"}
Titles == SeqsUpTo(TitleChars, MaxLen)
MaxLengths == (0..MaxLen) \cup {DefaultMaxLength}

(***************************************************************************)
(* DocxSplitter._create_section_document.  A source paragraph is a sequence *)
(* of runs, a run has a text and formatting attributes; an attribute is     *)
(* named by the property the code copies.  `failing` is the set of          *)
(* attributes whose copy raises.                                            *)
(***************************************************************************)
\* the run attributes in the order the code copies them: core properties,
\* extended properties (all_caps stands for the ten of them), font name, size,
\* color and highlight, and the run style
RunOrder ==
    << "bold", "italic", "underline", "all_caps", "font_name", "font_size",
       "font_color", "highlight_color", "run_style" >>

\* the paragraph attributes in the order the code copies them: style, shading
\* and the format properties (alignment stands for the nine of them)
ParaOrder == <<"para_style", "shading", "alignment">>

\* the copies that are not inside a try block: font.name and font.size in
\* _copy_font_properties
Unguarded == {"font_name", "font_size"}

\* the attributes of `order` copied one after the other: a failing copy inside
\* a try block is printed and skipped, a failing copy outside one raises
RECURSIVE CopyAttributes(_, _, _, _)
CopyAttributes(order, has, failing, copied) ==
    IF order = <<>> THEN [raised |-> FALSE, attrs |-> copied]
    ELSE IF Head(order) \in failing
         THEN IF Head(order) \in Unguarded
              THEN [raised |-> TRUE, attrs |-> copied]
              ELSE CopyAttributes(Tail(order), has, failing, copied)
    ELSE CopyAttributes(Tail(order), has, failing,
                        IF Head(order) \in has THEN copied \cup {Head(order)} ELSE copied)

\* para.text: the texts of the runs, joined
RECURSIVE ParaText(_)
ParaText(runs) == IF runs = <<>> THEN <<>> ELSE Head(runs).text \o ParaText(Tail(runs))

\* the loop over para.runs: new_para.add_run(run.text) and the attribute copies
RECURSIVE CopyRuns(_, _, _)
CopyRuns(runs, failing, out) ==
    IF runs = <<>> THEN [raised |-> FALSE, runs |-> out]
    ELSE LET c == CopyAttributes(RunOrder, Head(runs).attrs, failing, {})
             new_run == [text |-> Head(runs).text, attrs |-> c.attrs]
         IN IF c.raised THEN [raised |-> TRUE, runs |-> Append(out, new_run)]
            ELSE CopyRuns(Tail(runs), failing, Append(out, new_run))

\* a content paragraph that is not copied: only whitespace
IsSkippedBlankOnly(para, section_title) == IsBlank(ParaText(para.runs))

\* a content paragraph that is not copied: its text is the heading's, or it
\* holds only whitespace
IsSkipped(para, section_title) ==
    ParaText(para.runs) = section_title \/ IsBlank(ParaText(para.runs))

\* the loop over section.content
RECURSIVE CopyContent(_, _, _, _)
CopyContent(content, section_title, failing, out) ==
    IF content = <<>> THEN [done |-> TRUE, raised |-> FALSE, paragraphs |-> out]
    ELSE IF IsSkipped(Head(content), section_title)
         THEN CopyContent(Tail(content), section_title, failing, out)
    ELSE LET r == CopyRuns(Head(content).runs, failing, <<>>)
             pa == CopyAttributes(ParaOrder, Head(content).attrs, failing, {})
             new_para == [kind |-> "paragraph", level |-> None, runs |-> r.runs,
                          attrs |-> IF r.raised THEN {} ELSE pa.attrs]
         IN IF r.raised \/ pa.raised
            THEN [done |-> TRUE, raised |-> TRUE, paragraphs |-> Append(out, new_para)]
            ELSE CopyContent(Tail(content), section_title, failing, Append(out, new_para))

\* for p in new_doc.paragraphs[::-1]: remove p
RECURSIVE RemoveParagraphs(_)
RemoveParagraphs(d) ==
    IF d = <<>> THEN d ELSE RemoveParagraphs(SubSeq(d, 1, Len(d) - 1))

\* new_doc.add_heading(section.title, level=section.level)
Heading(section_title, level) ==
    [kind |-> "heading", level |-> level,
     runs |-> <<[text |-> section_title, attrs |-> {}]>>, attrs |-> {}]

\* _create_section_document: the paragraphs of the document it returns, or
\* that it raised
create_section_document(section_title, level, content, template, failing) ==
    CopyContent(content, section_title, failing,
                Append(RemoveParagraphs(template), Heading(section_title, level)))

\* no call of _create_section_document is being looked at
NoResult == [done |-> FALSE, raised |-> FALSE, paragraphs |-> <<>>]

ReplicaIdle ==
    /\ rep_title = <<>>
    /\ rep_level = 0
    /\ rep_content = <<>>
    /\ rep_template = <<>>
    /\ rep_failing = {}
    /\ rep_result = NoResult

SanitizeIdle ==
    /\ title = <<>>
    /\ max_length = DefaultMaxLength
    /\ safe = <<>>
    /\ safe_again = <<>>
    /\ sanitize_pc = "idle"

UniqueIdle ==
    /\ filename = <<>>
    /\ used_names = {}
    /\ returned = <<>>

StylesIdle ==
    /\ styles = <<>>
    /\ heading_levels = EmptyDict
    /\ style_pos = 0

SplitterIdle ==
    /\ paragraphs = <<>>
    /\ doc = <<>>
    /\ target_level = 0
    /\ sections = <<>>
    /\ cancel_requested = FALSE
    /\ status = <<>>
    /\ pc = "idle"

PackIdle ==
    /\ create_zip = TRUE
    /\ sec_idx = 0
    /\ output_dir_exists = FALSE
    /\ zip_exists = FALSE
    /\ zip_open = FALSE
    /\ zip_entries = <<>>
    /\ out_files = {}
    /\ result = "none"
    /\ progress = 0

DialogIdle ==
    /\ dlg_cancel_requested = FALSE
    /\ process_thread = "none"
    /\ dialog = "none"
    /\ process_button = "normal"
    /\ close_timer = FALSE
    /\ ui_events = <<>>
    /\ messagebox = <<>>
    /\ template_path = "chosen"
    /\ template_file = "readable"
    /\ temp_dir = "none"
    /\ ui_writers = {}

SanitizeInit ==
    /\ title \in Titles
    /\ max_length \in MaxLengths
    /\ safe = <<>>
    /\ safe_again = <<>>
    /\ sanitize_pc = "call"
    /\ UniqueIdle
    /\ StylesIdle
    /\ SplitterIdle
    /\ PackIdle
    /\ DialogIdle
    /\ ReplicaIdle

Sanitize ==
    /\ sanitize_pc = "call"
    /\ safe' = sanitize_filename(title, max_length)
    /\ sanitize_pc' = "again"
    /\ UNCHANGED <<title, max_length, safe_again, uniqueVars, styleVars, splitterVars, packVars, dialogVars>>
    /\ UNCHANGED replicaVars

SanitizeAgain ==
    /\ sanitize_pc = "again"
    /\ safe_again' = sanitize_filename(safe, max_length)
    /\ sanitize_pc' = "done"
    /\ UNCHANGED <<title, max_length, safe, uniqueVars, styleVars, splitterVars, packVars, dialogVars>>
    /\ UNCHANGED replicaVars

SanitizeNext == Sanitize \/ SanitizeAgain

SpecSanitize == SanitizeInit /\ [][SanitizeNext]_vars

(***************************************************************************)
(* SpecUnique: successive calls of ensure_unique with one base name        *)
(* against one used-name set that starts empty.                            *)
(***************************************************************************)
NameChars == {"A", ".", "_", "1"}
BaseNames == SeqsUpTo(NameChars, MaxNameLen)

UniqueInit ==
    /\ filename \in BaseNames
    /\ used_names = {}
    /\ returned = <<>>
    /\ SanitizeIdle
    /\ StylesIdle
    /\ SplitterIdle
    /\ PackIdle
    /\ DialogIdle
    /\ ReplicaIdle

EnsureUnique ==
    /\ Len(returned) < MaxCalls
    /\ LET r == ensure_unique(filename, used_names)
       IN /\ returned' = Append(returned, r.name)
          /\ used_names' = r.used_names
    /\ UNCHANGED <<filename, sanitizeVars, styleVars, splitterVars, packVars, dialogVars>>
    /\ UNCHANGED replicaVars

UniqueNext == EnsureUnique

SpecUnique == UniqueInit /\ [][UniqueNext]_vars


(***************************************************************************)
(* SpecStyles: _process_styles run, one style per step, over every small   *)
(* style table: the names are distinct and a base style is another style   *)
(* of the table.                                                           *)
(***************************************************************************)
StyleNames ==
    { <<HeadingTok, <<"2">>>>,            \* "Heading 2"
      <<HeadingTok, <<"3">>>>,            \* "Heading 3"
      <<HeadingTok, <<"X">>>>,            \* "Heading X"
      <<HeadingTok, <<"B">>, <<"3">>>>,   \* "Heading B 3"
      <<<<"C">>>> }                       \* "C"
StyleTypes == {"PARAGRAPH", "CHARACTER"}
StyleRecords == [name : StyleNames, type : StyleTypes, base_style : 0..MaxStyles]
StyleTables ==
    { t \in SeqsUpTo(StyleRecords, MaxStyles) :
        /\ \A i, j \in 1..Len(t) : i # j => t[i].name # t[j].name
        /\ \A i \in 1..Len(t) : t[i].base_style <= Len(t) /\ t[i].base_style # i }

StylesInit ==
    /\ styles \in StyleTables
    /\ heading_levels = EmptyDict
    /\ style_pos = 0
    /\ SanitizeIdle
    /\ UniqueIdle
    /\ SplitterIdle
    /\ PackIdle
    /\ DialogIdle
    /\ ReplicaIdle

ProcessStyle ==
    /\ style_pos < Len(styles)
    /\ heading_levels' = process_style(styles[style_pos + 1], styles, heading_levels)
    /\ style_pos' = style_pos + 1
    /\ UNCHANGED <<styles, sanitizeVars, uniqueVars, splitterVars, packVars, dialogVars>>
    /\ UNCHANGED replicaVars

StylesNext == ProcessStyle

SpecStyles == StylesInit /\ [][StylesNext]_vars

(***************************************************************************)
(* SpecParse: parse_sections (with _clean_document) on a splitter just     *)
(* constructed, with cancel() called at any moment.  The documents are:    *)
(* every sequence of at most MaxParas paragraphs of ParagraphKinds, at     *)
(* target level 2 or 3; every sequence of at most MaxBlocks level-2        *)
(* headings with titles of BlockTitles, each with or without a body        *)
(* paragraph; and the documents heading "A", body, empty heading, body,    *)
(* heading "B", body.                                                      *)
(***************************************************************************)
NameH1 == <<HeadingTok, <<"1">>>>
NameH2 == <<HeadingTok, <<"2">>>>
NameH3 == <<HeadingTok, <<"3">>>>
NameCustom == <<<<"C">>>>
NameNormal == <<<<"N">>>>

\* the styles of the documents: the built-in headings 1 to 3, a custom style
\* based on "Heading 2", and a style with no heading ancestry
DocStyles ==
    << [name |-> NameH1, type |-> "PARAGRAPH", base_style |-> 0],
       [name |-> NameH2, type |-> "PARAGRAPH", base_style |-> 0],
       [name |-> NameH3, type |-> "PARAGRAPH", base_style |-> 0],
       [name |-> NameCustom, type |-> "PARAGRAPH", base_style |-> 2],
       [name |-> NameNormal, type |-> "PARAGRAPH", base_style |-> 0] >>

Para(style, text) == [style |-> style, text |-> text]

ParagraphKinds ==
    { Para(NoStyle, <<"x">>), Para(NameNormal, <<" ">>),
      Para(NameH1, <<"H">>),
      Para(NameH2, <<"A">>), Para(NameH2, <<" ">>), Para(NameCustom, <<"A">>),
      Para(NameH3, <<"H">>), Para(NameH3, <<" ">>) }
GeneralDocs == SeqsUpTo(ParagraphKinds, MaxParas)
TargetLevels == {2, 3}

BlockTitles == { <<"A">>, <<"A", "?">>, <<"A", "_", "1">>, <<"?">>, <<"A", ".", "b">> }
Blocks ==
    { <<Para(NameH2, t)>> : t \in BlockTitles }
    \cup { <<Para(NameH2, t), Para(NameNormal, <<"x">>)>> : t \in BlockTitles }

RECURSIVE Flatten(_)
Flatten(seqs) == IF seqs = <<>> THEN <<>> ELSE Head(seqs) \o Flatten(Tail(seqs))

BlockDocs == { Flatten(bs) : bs \in SeqsUpTo(Blocks, MaxBlocks) }

BodyKinds == { Para(NameNormal, <<"x">>), Para(NameNormal, <<" ">>), Para(NameH1, <<"H">>) }
\* body text: at least one paragraph, one of them a non-heading with text
Bodies ==
    { b \in SeqsUpTo(BodyKinds, MaxBody) :
        \E i \in 1..Len(b) : b[i] = Para(NameNormal, <<"x">>) }
ScenarioDocs ==
    { <<Para(NameH2, <<"A">>)>> \o b1 \o <<Para(NameH2, e)>> \o b2
      \o <<Para(NameH2, <<"B">>)>> \o b3 :
        b1 \in Bodies, b2 \in Bodies, b3 \in Bodies, e \in {<<>>, <<" ">>} }

\* doc.paragraphs of a document just loaded
ParseInit ==
    /\ \/ paragraphs \in GeneralDocs /\ target_level \in TargetLevels
       \/ paragraphs \in BlockDocs \cup ScenarioDocs /\ target_level = 2
    /\ doc = Loaded(paragraphs)
    /\ styles = DocStyles
    /\ heading_levels = process_styles(DocStyles)
    /\ style_pos = Len(DocStyles)
    /\ sections = <<>>
    /\ cancel_requested = FALSE
    /\ status = <<>>
    /\ pc = "clean"
    /\ SanitizeIdle
    /\ UniqueIdle
    /\ PackIdle
    /\ DialogIdle
    /\ ReplicaIdle

ParseNext == Cancel \/ CleanDocument \/ ParseSections \/ ParseCheck

SpecParse == ParseInit /\ [][ParseNext]_vars

(***************************************************************************)
(* SpecSplitter: a DocxSplitter driven through process_document, with      *)
(* cancel() called at any moment by another thread.                        *)
(***************************************************************************)
RunBlocks ==
    { <<Para(NameH2, <<"A">>), Para(NameNormal, <<"x">>)>>,
      <<Para(NameH2, <<"A">>)>>,
      <<Para(NameNormal, <<"x">>)>> }

\* headings "Intro" (body), "" (body or none), "Details" (no body), "Appendix"
\* (body) at the target level
TitleIntro == <<"I", "n", "t", "r", "o">>
TitleDetails == <<"D", "e", "t", "a", "i", "l", "s">>
TitleAppendix == <<"A", "p", "p", "e", "n", "d", "i", "x">>

ExampleDocs ==
    { <<Para(NameH2, TitleIntro), Para(NameNormal, <<"x">>), Para(NameH2, <<>>)>>
          \o body
          \o <<Para(NameH2, TitleDetails), Para(NameH2, TitleAppendix),
               Para(NameNormal, <<"x">>)>> :
        body \in { <<>>, <<Para(NameNormal, <<"x">>)>> } }

RunDocs == { Flatten(bs) : bs \in SeqsUpTo(RunBlocks, MaxSections) } \cup ExampleDocs

SplitterInit ==
    /\ paragraphs \in RunDocs
    /\ target_level = 2
    /\ doc = Loaded(paragraphs)
    /\ styles = DocStyles
    /\ heading_levels = process_styles(DocStyles)
    /\ style_pos = Len(DocStyles)
    /\ sections = <<>>
    /\ cancel_requested = FALSE
    /\ status = <<>>
    /\ pc = "clean"
    /\ create_zip \in BOOLEAN
    /\ sec_idx = 0
    /\ output_dir_exists = FALSE
    /\ zip_exists = FALSE
    /\ zip_open = FALSE
    /\ zip_entries = <<>>
    /\ out_files = {}
    /\ result = "none"
    /\ progress = 0
    /\ SanitizeIdle
    /\ UniqueIdle
    /\ DialogIdle
    /\ ReplicaIdle

SplitterNext ==
    \/ Cancel
    \/ CleanDocument
    \/ ParseSections
    \/ ParseCheck
    \/ ProcessCheck
    \/ ZipOpen
    \/ ZipSection
    \/ ZipEnd
    \/ FileSection
    \/ FilesEnd

SpecSplitter == SplitterInit /\ [][SplitterNext]_vars

(***************************************************************************)
(* Spec: the splitter dialog with its worker thread.  The dialog never     *)
(* calls DocxSplitter.cancel, so Cancel is not one of its steps.           *)
(***************************************************************************)
Init ==
    /\ paragraphs \in RunDocs
    /\ target_level = 2
    /\ doc = <<>>
    /\ styles = DocStyles
    /\ heading_levels = EmptyDict
    /\ style_pos = 0
    /\ sections = <<>>
    /\ cancel_requested = FALSE
    /\ status = <<>>
    /\ pc = "idle"
    /\ create_zip \in BOOLEAN
    /\ sec_idx = 0
    /\ output_dir_exists = FALSE
    /\ zip_exists = FALSE
    /\ zip_open = FALSE
    /\ zip_entries = <<>>
    /\ out_files = {}
    /\ result = "none"
    /\ progress = 0
    /\ dlg_cancel_requested = FALSE
    /\ process_thread = "none"
    /\ dialog = "open"
    /\ process_button = "normal"
    /\ close_timer = FALSE
    /\ ui_events = <<>>
    /\ messagebox = <<>>
    /\ \/ template_path = "" /\ template_file = "missing"
       \/ template_path = "chosen" /\ template_file \in TemplateFiles
    /\ temp_dir = "none"
    /\ ui_writers = {}
    /\ SanitizeIdle
    /\ UniqueIdle
    /\ ReplicaIdle

Next ==
    \/ StartProcessing
    \/ DiscardTemplate
    \/ Construct
    \/ CleanDocument
    \/ ParseSections
    \/ ParseCheck
    \/ ProcessCheck
    \/ ZipOpen
    \/ ZipSection
    \/ ZipEnd
    \/ FileSection
    \/ FilesEnd
    \/ ThreadExit
    \/ RunCallback
    \/ CloseClicked
    \/ CloseTimer

Spec == Init /\ [][Next]_vars

(***************************************************************************)
(* SpecReplicate: _create_section_document on the sections, templates and  *)
(* failing attribute copies of a bounded set.                              *)
(***************************************************************************)
AllRunAttributes == { RunOrder[i] : i \in 1..Len(RunOrder) }
AllParaAttributes == { ParaOrder[i] : i \in 1..Len(ParaOrder) }

SourceRun(text) == [text |-> text, attrs |-> AllRunAttributes]

\* the paragraphs of a section's content: without runs, the heading's text,
\* whitespace, text in one run, text in two runs
ContentParagraphs ==
    { [runs |-> rs, attrs |-> AllParaAttributes] :
        rs \in { <<>>,
                 <<SourceRun(<<"A">>)>>,
                 <<SourceRun(<<" ">>)>>,
                 <<SourceRun(<<"x">>)>>,
                 <<SourceRun(<<"A">>), SourceRun(<<"x">>)>>,
                 <<SourceRun(<<" ">>), SourceRun(<<"x">>)>> } }

TemplateParagraph ==
    [kind |-> "template", level |-> None,
     runs |-> <<[text |-> <<"t">>, attrs |-> {}]>>, attrs |-> {}]

FailingSets ==
    { F \in SUBSET (AllRunAttributes \cup AllParaAttributes) : Cardinality(F) <= MaxFailures }

ReplicateInit ==
    /\ rep_title = <<"A">>
    /\ rep_level \in TargetLevels
    /\ rep_content \in SeqsUpTo(ContentParagraphs, MaxContent)
    /\ rep_template \in {<<>>, <<TemplateParagraph>>}
    /\ rep_failing \in FailingSets
    /\ rep_result = NoResult
    /\ SanitizeIdle
    /\ UniqueIdle
    /\ StylesIdle
    /\ SplitterIdle
    /\ PackIdle
    /\ DialogIdle

CreateSectionDocument ==
    /\ ~rep_result.done
    /\ rep_result' = create_section_document(rep_title, rep_level, rep_content,
                                             rep_template, rep_failing)
    /\ UNCHANGED <<rep_title, rep_level, rep_content, rep_template, rep_failing>>
    /\ UNCHANGED <<sanitizeVars, uniqueVars, styleVars, splitterVars, packVars, dialogVars>>

ReplicateNext == CreateSectionDocument

SpecReplicate == ReplicateInit /\ [][ReplicateNext]_vars

(***************************************************************************)
(* C1, C2: cancellation of a split                                         *)
(***************************************************************************)
\* messages the worker reports in a step whose checkpoint read the flag as
\* not set
PassedCheckpoint ==
    SectionReport \cup { "Created archive", "Saved documents" }

ConfirmedBeforeCheckpoint ==
    \E i, j \in DOMAIN status :
        /\ i < j
        /\ status[i] = "Canceling operation..."
        /\ status[j] \in PassedCheckpoint

C2_NoArchiveAfterCancel ==
    (create_zip /\ pc = "done" /\ result = "None" /\ output_dir_exists)
        => ~zip_exists

(***************************************************************************)
(* Claims about FilenameManager.                                           *)
(***************************************************************************)
HasAdjacentDots(s) == \E i \in 1..(Len(s) - 1) : s[i] = "." /\ s[i + 1] = "."
Contains(s, chars) == \E i \in 1..Len(s) : s[i] \in chars

\* C6: N successive calls of ensure_unique with the same base name against one
\* shared, initially empty set return pairwise distinct names, exactly one of
\* which is the unmodified base name; every returned name is in the set
\* afterwards; and each call ends: call i leaves the loop with the base name
\* (i = 1) or with the candidate numbered i - 1.
C6_UniqueNames ==
    /\ \A i, j \in 1..Len(returned) : i # j => returned[i] # returned[j]
    /\ Len(returned) >= 1 =>
           Cardinality({i \in 1..Len(returned) : returned[i] = filename}) = 1
    /\ \A i \in 1..Len(returned) : returned[i] \in used_names
    /\ \A i \in 1..Len(returned) :
           returned[i] = IF i = 1 THEN filename ELSE Candidate(filename, i - 1)

\* the calls were all made, for a base name with an extension
C6_Witness ==
    /\ Len(returned) = MaxCalls
    /\ LastDot(filename) > 1
    /\ LastDot(filename) < Len(filename)

\* C7: sanitize_filename is idempotent: sanitizing its result again, with the
\* same max_length, gives the same result.
C7_SanitizeIdempotent ==
    sanitize_pc = "done" => safe_again = safe

\* a title that sanitizing changed, to a non-empty name that truncation cut
C7_Witness ==
    /\ sanitize_pc = "done"
    /\ safe # <<>>
    /\ safe # title
    /\ Len(RemoveInvalid(title)) > max_length

\* C8: the result of sanitize_filename holds none of < > : " / \ | ? *, no
\* whitespace and no two adjacent dots, does not begin or end with "." or "_",
\* and is at most max_length characters long.
C8_SanitizeResult ==
    sanitize_pc # "call" =>
        /\ ~Contains(safe, InvalidChars)
        /\ ~Contains(safe, Whitespace)
        /\ ~HasAdjacentDots(safe)
        /\ safe # <<>> => /\ safe[1] \notin {".", "_"}
                          /\ safe[Len(safe)] \notin {".", "_"}
        /\ Len(safe) <= max_length

\* a title holding an invalid character and whitespace or adjacent dots, whose
\* sanitized name is not empty and fills max_length exactly
C8_Witness ==
    /\ sanitize_pc = "again"
    /\ Contains(title, InvalidChars)
    /\ Contains(title, Whitespace) \/ HasAdjacentDots(title)
    /\ safe # <<>>
    /\ Len(safe) = max_length

(***************************************************************************)
(* Claims about StyleProcessor.                                            *)
(***************************************************************************)
\* the name is "Heading <integer>"
IsHeadingInteger(name) ==
    Len(name) = 2 /\ name[1] = HeadingTok /\ IsIntLiteral(name[2])

\* the level the claim gives a style: its own integer, else its direct base's
ClaimedLevel(style, all) ==
    IF style.type # "PARAGRAPH" THEN None
    ELSE IF IsHeadingInteger(style.name) THEN ParseInt(style.name[2])
    ELSE IF style.base_style # 0 /\ IsHeadingInteger(all[style.base_style].name)
         THEN ParseInt(all[style.base_style].name[2])
    ELSE None

\* C9: the heading-level map holds exactly the paragraph styles that are named
\* "Heading <integer>" (mapped to that integer) or, not being so named, have a
\* direct base style named "Heading <integer>" (mapped to the base's integer).
C9_HeadingLevelMap ==
    style_pos = Len(styles) =>
        /\ DOMAIN heading_levels =
               { styles[i].name : i \in { j \in 1..Len(styles) :
                                            ClaimedLevel(styles[j], styles) # None } }
        /\ \A i \in 1..Len(styles) :
               ClaimedLevel(styles[i], styles) # None =>
                   heading_levels[styles[i].name] = ClaimedLevel(styles[i], styles)

(***************************************************************************)
(* Claims about _clean_document and parse_sections.                        *)
(***************************************************************************)
\* _clean_document returned without seeing the cancel flag
CleanUncanceled ==
    /\ pc \notin {"idle", "clean"}
    /\ \A i \in 1..Len(status) :
           status[i] # "Operation canceled during document cleaning"

\* parse_sections returned without seeing the cancel flag
ParseUncanceled ==
    /\ pc = "parsed"
    /\ \E i \in 1..Len(status) : status[i] = "Found non-empty sections"

IsTargetHeading(para) == get_heading_level(para, heading_levels) = target_level

\* the paragraph (by identity) is in the content of some section
InSomeContent(id) ==
    \E i \in 1..Len(sections) : \E k \in 1..Len(sections[i].content) :
        sections[i].content[k] = id

InContentOf(id, sec) == \E k \in 1..Len(sec.content) : sec.content[k] = id

SectionTitles == [i \in 1..Len(sections) |-> sections[i].title]

\* The document is heading "A", body, empty heading, body, heading "B", body
\* at the target level, every body holding text.
IsScenario == target_level = 2 /\ paragraphs \in ScenarioDocs
EmptyHeadingAt ==
    CHOOSE i \in 1..Len(paragraphs) :
        IsTargetHeading(paragraphs[i]) /\ IsBlank(paragraphs[i].text)
HeadingBAt ==
    CHOOSE i \in 1..Len(paragraphs) : paragraphs[i] = Para(NameH2, <<"B">>)
\* the body paragraphs between the empty heading and heading "B"
DroppedBody == (EmptyHeadingAt + 1)..(HeadingBAt - 1)

\* C3 as stated: the document yields exactly the sections "A" and "B", and the
\* body paragraphs between the empty-titled heading and the next target-level
\* heading are in the content of no section.
C3_BodyAfterEmptyHeadingDropped ==
    (IsScenario /\ ParseUncanceled) =>
        /\ SectionTitles = << <<"A">>, <<"B">> >>
        /\ \A id \in DroppedBody : ~InSomeContent(id)

\* C3, amended: the document yields exactly the sections "A" and "B"; the
\* empty-titled heading opens no section (no section starts at it or holds
\* it); and every body paragraph between the empty-titled heading and the next
\* target-level heading that _clean_document left in the document is in the
\* content of "A", after the body of "A", and not in the content of "B".
C3_BodyAfterEmptyHeadingJoinsA ==
    (IsScenario /\ ParseUncanceled) =>
        /\ SectionTitles = << <<"A">>, <<"B">> >>
        /\ ~InSomeContent(EmptyHeadingAt)
        /\ \A i \in 1..Len(doc) : doc[i] # EmptyHeadingAt
        /\ \A i \in 1..Len(sections) : sections[i].title # paragraphs[EmptyHeadingAt].text
        /\ \A id \in DroppedBody :
               (\E i \in 1..Len(doc) : doc[i] = id) =>
                   /\ InContentOf(id, sections[1])
                   /\ ~InContentOf(id, sections[2])
        /\ \A k, m \in 1..Len(sections[1].content) :
               (sections[1].content[k] < EmptyHeadingAt
                /\ sections[1].content[m] \in DroppedBody) => k < m

\* the scenario was parsed, and a paragraph with text that followed the empty
\* heading is in the content of "A"
C3_Witness ==
    /\ IsScenario
    /\ ParseUncanceled
    /\ \E id \in DroppedBody :
           /\ ~IsBlank(paragraphs[id].text)
           /\ InContentOf(id, sections[1])

C5_SafeTitlesDistinct ==
    \A i, j \in 1..Len(sections) :
        i # j => sections[i].safe_title # sections[j].safe_title

\* three sections are returned whose sanitized titles coincide or collide with
\* a suffixed name: one of them is titled "A_1" and was not given that name
C5_Witness ==
    /\ ParseUncanceled
    /\ Len(sections) = 3
    /\ \E i, j \in 1..3 :
           /\ i # j
           /\ sections[i].title # sections[j].title
           /\ sanitize_filename(sections[i].title, DefaultMaxLength)
                  = sanitize_filename(sections[j].title, DefaultMaxLength)
    /\ \E k \in 1..3 :
           /\ sections[k].title = <<"A", "_", "1">>
           /\ sections[k].safe_title # <<"A", "_", "1">>

\* the paragraph at idx of the loaded document is one the scan marks: a heading
\* above the target level or with empty text, or an empty paragraph that
\* immediately follows such a heading
Marked(idx) ==
    \/ IsRemovedHeading(paragraphs[idx + 1], heading_levels, target_level)
    \/ /\ idx >= 1
       /\ IsRemovedHeading(paragraphs[idx], heading_levels, target_level)
       /\ IsBlank(paragraphs[idx + 1].text)

\* C10: an uncanceled _clean_document removes exactly the paragraphs its scan
\* marked: the document is then the unmarked paragraphs, in their order.
C10_CleanRemovesExactlyMarked ==
    CleanUncanceled =>
        doc = SelectSeq(Loaded(paragraphs), LAMBDA id : ~Marked(id - 1))

(***************************************************************************)
(* C11: what _clean_document leaves in the document                        *)
(***************************************************************************)
\* the paragraph (by identity) is a heading above the target level or a
\* heading without text
IsUnwantedHeading(id) ==
    LET level == get_heading_level(paragraphs[id], heading_levels)
    IN /\ level # None
       /\ level < target_level \/ IsBlank(paragraphs[id].text)

\* C11: after an uncanceled _clean_document at target level T, the document
\* holds no heading of a level below T and no heading whose text is empty or
\* whitespace only.
C11_CleanLeavesNoUnwantedHeading ==
    CleanUncanceled => \A k \in 1..Len(doc) : ~IsUnwantedHeading(doc[k])

\* an uncanceled cleaning removed a heading above the target level and an
\* empty heading at the target level, and kept some paragraph
C11_Witness ==
    /\ CleanUncanceled
    /\ doc # <<>>
    /\ \E id \in 1..Len(paragraphs) :
           /\ get_heading_level(paragraphs[id], heading_levels) = target_level
           /\ IsBlank(paragraphs[id].text)
    /\ \E id \in 1..Len(paragraphs) :
           /\ get_heading_level(paragraphs[id], heading_levels) # None
           /\ get_heading_level(paragraphs[id], heading_levels) < target_level
           /\ ~IsBlank(paragraphs[id].text)

(***************************************************************************)
(* C12: the cancel flag and the result of parse_sections                   *)
(***************************************************************************)
\* the messages parse_sections reports when it returns
ParseReturned ==
    { "Operation canceled during parsing", "Operation canceled",
      "Found non-empty sections" }

\* cancel() was called before parse_sections made its last flag check
CanceledBeforeLastCheck ==
    \E i, j \in DOMAIN status :
        /\ i < j
        /\ status[i] = "Cancellation requested"
        /\ status[j] \in ParseReturned

HasReturnedFromParse == \E j \in DOMAIN status : status[j] \in ParseReturned

\* C12: when the cancel flag was set before parse_sections made its last flag
\* check, parse_sections ends with an empty section list; and once
\* parse_sections has returned, no later step (a late cancel() included)
\* changes the section list.
C12_CancelBeforeLastCheckClears ==
    /\ [](CanceledBeforeLastCheck => sections = <<>>)
    /\ [][HasReturnedFromParse => sections' = sections]_vars

\* the loop of parse_sections had built a section when the flag was set, and
\* the last check cleared the list
C12_Witness ==
    /\ pc = "parsed"
    /\ sections = <<>>
    /\ \E b \in 2..Len(paragraphs) :
           /\ get_heading_level(paragraphs[b - 1], heading_levels) = target_level
           /\ ~IsBlank(paragraphs[b - 1].text)
           /\ ~IsBlank(paragraphs[b].text)
    /\ \E i \in DOMAIN status :
           /\ i < Len(status)
           /\ status[i] = "Cancellation requested"
           /\ status[Len(status)] = "Operation canceled"
           /\ \E k \in 1..(i - 1) : status[k] = "Parsing document sections"

(***************************************************************************)
(* C13: a cancellation seen while cleaning                                 *)
(***************************************************************************)
\* the checkpoint of _clean_document has seen the flag
CanceledWhileCleaning ==
    \E i \in DOMAIN status : status[i] = "Operation canceled during document cleaning"

\* C13: when the checkpoint inside _clean_document has seen the cancellation,
\* parse_sections produces no section, process_document returns null, the
\* output directory is not created and no file or archive is written.
C13_CleanCancelIsCanceledRun ==
    CanceledWhileCleaning =>
        /\ sections = <<>>
        /\ ~output_dir_exists
        /\ ~zip_exists
        /\ out_files = {}
        /\ result \in {"none", "None"}
        /\ pc = "done" => result = "None"

\* process_document has returned from a run canceled while cleaning a document
\* that holds a heading with a body at the target level
C13_Witness ==
    /\ CanceledWhileCleaning
    /\ pc = "done"
    /\ result = "None"
    /\ \E b \in 2..Len(paragraphs) :
           /\ get_heading_level(paragraphs[b - 1], heading_levels) = target_level
           /\ ~IsBlank(paragraphs[b - 1].text)
           /\ ~IsBlank(paragraphs[b].text)

(***************************************************************************)
(* C14: the result of process_document                                     *)
(***************************************************************************)
\* C14: process_document returns null only when cancellation was requested;
\* an uncanceled run that ends without an exception returns the archive path
\* in archive mode and the output directory in file mode.
C14_NullOnlyOnCancel ==
    pc = "done" =>
        /\ result = "None" => cancel_requested
        /\ ~cancel_requested =>
               result = IF create_zip THEN "zip_path" ELSE "output_dir"

(***************************************************************************)
(* C15..C18: the sections and the output                                   *)
(***************************************************************************)
\* the per-section reports of the packaging loop, in section order: report k
\* is about sections[k]
SectionReports ==
    SelectSeq(status, LAMBDA m : m \in SectionReport)

\* the names present in the output: the archive's entries or the files
OutputNames ==
    { zip_entries[k] : k \in 1..Len(zip_entries) } \cup out_files

CanceledWhilePackaging ==
    \E i \in DOMAIN status :
        status[i] \in { "Operation canceled by user",
                        "Operation canceled while creating archive",
                        "Operation canceled while saving files" }

\* C15: an exception while building or writing one section is reported and
\* does not stop the run: every later section is still processed, the failed
\* section is absent from the output, and the run returns its success path.
C15_FailedSectionOmitted ==
    /\ Len(SectionReports) <= Len(sections)
    /\ \A k \in 1..Len(SectionReports) :
           SectionReports[k] \in ErrorReport
               => DocxName(sections[k].safe_title) \notin OutputNames
    /\ (pc = "done" /\ output_dir_exists /\ ~CanceledWhilePackaging) =>
           /\ Len(SectionReports) = Len(sections)
           /\ result = IF create_zip THEN "zip_path" ELSE "output_dir"

\* C16: an I/O error while writing a section's file or archive entry is fatal:
\* it is not swallowed, no later section is processed and the run does not
\* return a success path.
C16_IoErrorIsFatal ==
    \A i \in DOMAIN status :
        status[i] = "Error processing section: I/O error" =>
            /\ result \notin {"zip_path", "output_dir"}
            /\ \A j \in DOMAIN status : j > i => status[j] \notin PassedCheckpoint

\* a per-section checkpoint has seen the flag
CanceledAtSectionCheckpoint ==
    \E i \in DOMAIN status : status[i] = "Operation canceled by user"

\* C17: in file mode, once a per-section checkpoint has seen the cancel flag
\* no further file is written: the files in the output directory are files of
\* sections processed before that checkpoint, every section reported as
\* processed before it has its file, and the run returns null.
C17_NoFileAfterCancel ==
    /\ [](( ~create_zip /\ CanceledAtSectionCheckpoint ) =>
            /\ pc = "done"
            /\ result = "None"
            /\ out_files \subseteq
                   { DocxName(sections[k].safe_title) : k \in 1..Len(SectionReports) }
            /\ \A k \in 1..Len(SectionReports) :
                   SectionReports[k] = "Processed section"
                       => DocxName(sections[k].safe_title) \in out_files)
    /\ [][CanceledAtSectionCheckpoint => out_files' = out_files]_vars

\* a file-mode run canceled at the checkpoint before its second section, with
\* the first section's file written
C17_Witness ==
    /\ ~create_zip
    /\ CanceledAtSectionCheckpoint
    /\ Len(sections) = 2
    /\ SectionReports = <<"Processed section">>
    /\ out_files = {DocxName(sections[1].safe_title)}
    /\ result = "None"

\* the archive has one entry per section, named by its safe title, in order
EntriesOfSections == [k \in 1..Len(sections) |-> DocxName(sections[k].safe_title)]

NoSectionFailed == \A i \in DOMAIN status : status[i] \notin ErrorReport

\* C18: an uncanceled run of _create_zip_archive in which no section fails
\* returns the archive path, and the archive holds exactly one entry per
\* section, named <safe_title>.docx, in the order of the section list, without
\* duplicate names; the headings "Intro" (body), "" , "Details" (no body),
\* "Appendix" (body) give exactly Intro.docx and Appendix.docx, in that order.
C18_ArchiveEntriesAreSections ==
    (create_zip /\ zip_exists /\ pc = "done" /\ ~CanceledWhilePackaging /\ NoSectionFailed)
        => /\ result = "zip_path"
           /\ zip_entries = EntriesOfSections
           /\ \A i, j \in 1..Len(zip_entries) : i # j => zip_entries[i] # zip_entries[j]
           /\ paragraphs \in ExampleDocs =>
                  zip_entries = <<DocxName(TitleIntro), DocxName(TitleAppendix)>>

\* the archive of the example document has been returned
C18_Witness ==
    /\ paragraphs \in ExampleDocs
    /\ create_zip
    /\ pc = "done"
    /\ result = "zip_path"
    /\ NoSectionFailed
    /\ zip_entries = <<DocxName(TitleIntro), DocxName(TitleAppendix)>>

(***************************************************************************)
(* C19: the progress percentage                                            *)
(***************************************************************************)
\* idx / total * 100 rounded to the nearest integer
percent_rounded(idx, total) == (idx * 200 + total) \div (2 * total)

\* C19: after each successfully processed section with 1-based index i out of
\* n sections, the progress callback has been called with round(i / n * 100).
C19_ProgressIsRounded ==
    (status # <<>> /\ status[Len(status)] = "Processed section")
        => progress = percent_rounded(sec_idx - 1, Len(sections))

(***************************************************************************)
(* C20: a missing or unreadable template                                   *)
(***************************************************************************)
\* the template the split would use is missing or cannot be read
ConfigurationError == template_path = "" \/ template_file # "readable"

\* C20: a missing or unreadable template is detected before any worker thread
\* is started, whether the template was chosen by the user or a default one
\* is generated: no worker runs with such a template and no output is
\* produced.
C20_ConfigErrorBeforeWorker ==
    ConfigurationError =>
        /\ process_thread # "alive"
        /\ process_thread = "none" => (~zip_exists /\ out_files = {})

(***************************************************************************)
(* C21: the thread that writes the dialog's status and progress            *)
(***************************************************************************)
\* C21: the status text and the progress bar of the dialog are never written
\* in the worker thread's context: the worker's reports are marshaled to the
\* user interface thread.
C21_ReportsMarshaledToUi == "worker" \notin ui_writers

(***************************************************************************)
(* C22, C23: the document of a section                                     *)
(***************************************************************************)
\* the texts of the runs of a paragraph, in order
RunTexts(runs) == [i \in 1..Len(runs) |-> runs[i].text]

\* the content paragraphs the claim says are copied: neither whitespace-only
\* nor textually equal to the heading title
ClaimedCopied ==
    SelectSeq(rep_content,
              LAMBDA para : /\ ParaText(para.runs) # rep_title
                            /\ \E i \in 1..Len(ParaText(para.runs)) :
                                   ParaText(para.runs)[i] \notin Whitespace)

\* C22: the document _create_section_document returns holds no paragraph of
\* the template, starts with the section's heading (title and level), and then
\* holds exactly one paragraph per content paragraph that is neither
\* whitespace-only nor equal to the title, in content order, each with one run
\* per source run carrying the same text in the same order.
C22_SectionDocumentContent ==
    (rep_result.done /\ ~rep_result.raised) =>
        LET out == rep_result.paragraphs
        IN /\ \A k \in 1..Len(out) : out[k].kind # "template"
           /\ Len(out) = 1 + Len(ClaimedCopied)
           /\ out[1].kind = "heading"
           /\ out[1].level = rep_level
           /\ RunTexts(out[1].runs) = <<rep_title>>
           /\ \A k \in 1..Len(ClaimedCopied) :
                  /\ out[k + 1].kind = "paragraph"
                  /\ RunTexts(out[k + 1].runs) = RunTexts(ClaimedCopied[k].runs)

\* a document was created from a template with a paragraph, for a content
\* holding a paragraph equal to the title and a paragraph of two runs
C22_Witness ==
    /\ rep_result.done
    /\ ~rep_result.raised
    /\ rep_template # <<>>
    /\ Len(rep_content) = 2
    /\ ParaText(rep_content[1].runs) = rep_title
    /\ Len(rep_content[2].runs) = 2
    /\ Len(rep_result.paragraphs) = 2
    /\ Len(rep_result.paragraphs[2].runs) = 2

\* C23: a failure while copying any single formatting attribute never raises
\* out of _create_section_document and never prevents the remaining copies:
\* the call returns a document, and every copied run carries every attribute
\* of its source run whose copy did not fail (bold stays set when the copy of
\* an extended attribute fails), every copied paragraph every paragraph
\* attribute whose copy did not fail.
C23_FormatFailureIsContained ==
    rep_result.done =>
        /\ ~rep_result.raised
        /\ Len(rep_result.paragraphs) = 1 + Len(ClaimedCopied)
        /\ \A k \in 1..Len(ClaimedCopied) :
               LET new_para == rep_result.paragraphs[k + 1]
                   para == ClaimedCopied[k]
               IN /\ para.attrs \ rep_failing \subseteq new_para.attrs
                  /\ Len(new_para.runs) = Len(para.runs)
                  /\ \A j \in 1..Len(para.runs) :
                         para.runs[j].attrs \ rep_failing \subseteq new_para.runs[j].attrs

(***************************************************************************)
(* C24, C28: the dialog, its worker thread and the default template        *)
(***************************************************************************)
\* C24: after the user confirmed the cancellation, the dialog is not destroyed
\* before the worker thread has terminated: in every reachable state where the
\* dialog is destroyed, the worker thread is not alive.
C24_DestroyedOnlyAfterWorker ==
    dialog = "destroyed" => process_thread # "alive"

\* the worker has not yet read the template for its last section
TemplateStillNeeded ==
    \/ pc \in {"init", "clean", "parse", "parse_check", "parsed", "zip_open"}
    \/ pc \in {"zip", "files"} /\ sec_idx < Len(sections)

\* C28: while the worker thread runs with the default template, the template
\* file exists: from the start of the thread until it has read the template
\* for the last section, in every interleaving of the worker with the thread
\* that started it.
C28_DefaultTemplateOutlivesWorker ==
    (template_path = "default" /\ process_thread = "alive" /\ TemplateStillNeeded)
        => template_file = "readable"

(***************************************************************************)
(* C25, C26, C27, C30: the sections parse_sections returns                 *)
(***************************************************************************)
\* C25: every section parse_sections returns has a safe_title that is not
\* empty, whatever heading text with a non-whitespace character it was made
\* from, titles of only illegal characters, dots or underscores included.
C25_SafeTitleNotEmpty ==
    ParseUncanceled =>
        \A i \in 1..Len(sections) :
            ~IsBlank(sections[i].title) => sections[i].safe_title # <<>>

\* C26: parse_sections never fails when it discards an empty section: the
\* section is in self.sections when it is removed, for every document
\* _clean_document returns.
C26_DiscardNeverFails == pc # "raised"

\* the target-level headings with text of the cleaned document
TextHeadings ==
    { idx \in 0..(Len(doc) - 1) :
        /\ IsTargetHeading(ParaAt(paragraphs, doc, idx))
        /\ ~IsBlank(ParaAt(paragraphs, doc, idx).text) }

\* the headings whose section was discarded as empty
Discarded ==
    { idx \in TextHeadings : \A i \in 1..Len(sections) : sections[i].start_index # idx }

\* parse_sections returned after discarding two empty sections, one of them
\* the final one, and keeping a section
C26_Witness ==
    /\ ParseUncanceled
    /\ Cardinality(Discarded) >= 2
    /\ Len(doc) - 1 \in Discarded
    /\ Len(sections) >= 1

\* C27: after an uncanceled parse_sections the sections are in document order
\* with strictly increasing start_index; the content of each is exactly the
\* paragraphs of the cleaned document at the indices start_index + 1 ..
\* end_index, so len(content) = end_index - start_index; no paragraph is in
\* two sections; the paragraphs before the first target-level heading are in
\* none.
C27_SectionsPartitionDocument ==
    ParseUncanceled =>
        /\ \A i, j \in 1..Len(sections) :
               i < j => sections[i].start_index < sections[j].start_index
        /\ \A i \in 1..Len(sections) :
               LET sec == sections[i]
               IN /\ sec.start_index \in TextHeadings
                  /\ sec.end_index <= Len(doc) - 1
                  /\ Len(sec.content) = sec.end_index - sec.start_index
                  /\ \A k \in 1..Len(sec.content) :
                         sec.content[k] = doc[sec.start_index + k + 1]
        /\ \A i, j \in 1..Len(sections) :
               i # j => \A k \in 1..Len(sections[i].content) :
                            ~InContentOf(sections[i].content[k], sections[j])
        /\ \A idx \in 0..(Len(doc) - 1) :
               (\A h \in 0..idx : ~IsTargetHeading(ParaAt(paragraphs, doc, h)))
                   => ~InSomeContent(doc[idx + 1])

\* two sections are returned, each with a content, from a document that
\* _clean_document shortened
C27_Witness ==
    /\ ParseUncanceled
    /\ Len(sections) = 2
    /\ Len(doc) < Len(paragraphs)
    /\ Len(sections[1].content) >= 1
    /\ Len(sections[2].content) >= 1

\* C30: a section discarded as empty keeps its safe title reserved: a later
\* heading with the same sanitized title gets a suffixed safe_title.
C30_DiscardedTitleStaysReserved ==
    ParseUncanceled =>
        \A i \in 1..Len(sections) :
            LET base == sanitize_filename(sections[i].title, DefaultMaxLength)
            IN (\E idx \in Discarded :
                    /\ idx < sections[i].start_index
                    /\ sanitize_filename(ParaAt(paragraphs, doc, idx).text,
                                         DefaultMaxLength) = base)
               => \E counter \in 1..Len(doc) :
                      sections[i].safe_title = Candidate(base, counter)

\* heading "A" without a body was discarded, a later heading "A" with a body
\* is the only section and is named "A_1"
C30_Witness ==
    /\ ParseUncanceled
    /\ Len(sections) = 1
    /\ sections[1].title = <<"A">>
    /\ sections[1].safe_title = <<"A", "_", "1">>
    /\ \E idx \in Discarded : ParaAt(paragraphs, doc, idx).text = <<"A">>

(***************************************************************************)
(* C29: the number of documents reported                                   *)
(***************************************************************************)
\* C29: on success the number of documents reported ("Saved N documents",
\* "Created N documents") is the number of section documents actually
\* written, runs in which a section failed included.
C29_ReportedCountIsWritten ==
    /\ result = "output_dir" =>
           /\ total_sections = Cardinality(out_files)
           /\ section_count = Cardinality(out_files)
    /\ result = "zip_path" => section_count = Len(zip_entries)

=============================================================================
